---- MODULE Spec2Model ----
(***************************************************************************)
(* loki (`lk`): a thin layer over git.  The model covers main.rs: the      *)
(* subcommands new, push, pull/fetch (prune) and save, the git repository  *)
(* they act on, and the prune-line parser of the pruning module.           *)
(*                                                                         *)
(* Text (branch names, output lines) is a sequence of one-character        *)
(* strings, so that trimming, substring search and case folding are        *)
(* computed.  Literal git arguments ("push", "--prune", ...) are strings.  *)
(***************************************************************************)
EXTENDS Integers, Sequences, FiniteSets, TLC

VARIABLES
    repo_current,    \* the repository: the checked-out branch, or HEAD when detached
    repo_branches,   \* the repository: the local branch names
    run,             \* number of invocations of the tool so far
    cmd,             \* the parsed command line (Cli) of the running invocation
    pc,              \* position of the running invocation
    current_branch,  \* prune/push_branch: local `current_branch`
    branches,        \* prune: local `branches`
    lines,           \* prune: the lines git_command_lines returned
    idx,             \* prune: number of lines the for loop has consumed
    queue,           \* git_commands_status: the commands not yet run
    log,             \* everything the invocation did, in order
    result,          \* what main returned
    prev,            \* the previous invocation: its lines, snapshot, log, result
    pline,           \* the parser on its own: the line handed to is_pruned_branch
    presult          \* the parser on its own: what is_pruned_branch returned

vars == <<repo_current, repo_branches, run, cmd, pc, current_branch, branches,
          lines, idx, queue, log, result, prev, pline, presult>>

repo == <<repo_current, repo_branches>>
locals == <<current_branch, branches, lines, idx, queue>>
parser == <<pline, presult>>

-----------------------------------------------------------------------------
(* Bounds *)

\* longest output of one fetch/pull
MaxLines == 2
\* invocations of the tool in a row
MaxRuns == 2
\* most NAME arguments of `new`
MaxNameParts == 2
\* most pieces of a line handed to the parser
MaxPieces == 5

-----------------------------------------------------------------------------
(* Text *)

HEAD == <<"H", "E", "A", "D">>
LowerHead == <<"h", "e", "a", "d">>
BrA == <<"a">>
BrUpperA == <<"A">>
Origin == "origin"

\* the local branch names a repository of the model may hold
Names == {BrA, BrUpperA, LowerHead}

LowerChar(c) ==
    CASE c = "A" -> "a" [] c = "D" -> "d" [] c = "E" -> "e" [] c = "H" -> "h"
      [] OTHER -> c

to_ascii_lowercase(s) == [i \in DOMAIN s |-> LowerChar(s[i])]

RECURSIVE JoinWith(_, _)
JoinWith(parts, sep) ==
    IF Len(parts) = 0 THEN <<>>
    ELSE IF Len(parts) = 1 THEN parts[1]
    ELSE parts[1] \o sep \o JoinWith(Tail(parts), sep)

-----------------------------------------------------------------------------
(* The prune parser (pruning::is_pruned_branch) *)

MarkDeleted == <<"-", " ", "[", "d", "e", "l", "e", "t", "e", "d", "]">>
MarkNone == <<"(", "n", "o", "n", "e", ")">>
MarkArrow == <<"-", ">">>

Some(v) == [some |-> TRUE, val |-> v]
None == [some |-> FALSE, val |-> <<>>]

IsWhitespace(c) == c \in {" ", "\t"}

RECURSIVE TrimStart(_)
TrimStart(s) ==
    IF Len(s) > 0 /\ IsWhitespace(s[1]) THEN TrimStart(Tail(s)) ELSE s

RECURSIVE TrimEnd(_)
TrimEnd(s) ==
    IF Len(s) > 0 /\ IsWhitespace(s[Len(s)])
    THEN TrimEnd(SubSeq(s, 1, Len(s) - 1))
    ELSE s

Trim(s) == TrimEnd(TrimStart(s))

\* marker m occurs in s starting at position i
OccursAt(s, m, i) ==
    /\ i >= 1
    /\ i + Len(m) - 1 <= Len(s)
    /\ SubSeq(s, i, i + Len(m) - 1) = m

\* sequential substring search: the first occurrence of m in s at or after
\* position from, 0 when there is none
RECURSIVE Find(_, _, _)
Find(s, m, from) ==
    IF from + Len(m) - 1 > Len(s) THEN 0
    ELSE IF OccursAt(s, m, from) THEN from
    ELSE Find(s, m, from + 1)

\* the last occurrence of m in s that starts at or before position from, 0
\* when there is none
RECURSIVE RFind(_, _, _)
RFind(s, m, from) ==
    IF from < 1 THEN 0
    ELSE IF OccursAt(s, m, from) THEN from
    ELSE RFind(s, m, from - 1)

\* the text after the first `->` rather than the last
is_pruned_branch_first_arrow(line) ==
    LET t == Trim(line)
        d == Find(t, MarkDeleted, 1)
        n == IF d = 0 THEN 0 ELSE Find(t, MarkNone, d + Len(MarkDeleted))
        a == IF n = 0 THEN 0 ELSE Find(t, MarkArrow, n + Len(MarkNone))
        name == IF a = 0 THEN <<>>
                ELSE Trim(SubSeq(t, a + Len(MarkArrow), Len(t)))
    IN  IF a = 0 \/ name = <<>> THEN None ELSE Some(name)

is_pruned_branch(line) ==
    LET t == Trim(line)
        d == Find(t, MarkDeleted, 1)
        n == IF d = 0 THEN 0 ELSE Find(t, MarkNone, d + Len(MarkDeleted))
        a == IF n = 0 THEN 0 ELSE Find(t, MarkArrow, n + Len(MarkNone))
        last == RFind(t, MarkArrow, Len(t))
        name == IF a = 0 THEN <<>>
                ELSE Trim(SubSeq(t, last + Len(MarkArrow), Len(t)))
    IN  IF a = 0 \/ name = <<>> THEN None ELSE Some(name)

\* "  - [deleted]         (none)     -> <name>"
PrunedLine(name) ==
    <<" ", " ">> \o MarkDeleted \o <<" ", " ", " ", " ", " ", " ", " ", " ", " ">>
        \o MarkNone \o <<" ", " ", " ", " ", " ">> \o MarkArrow \o <<" ">> \o name

FeatureFoo == <<"f", "e", "a", "t", "u", "r", "e", "/", "f", "o", "o">>
ExampleLine == PrunedLine(FeatureFoo)

\* the pieces the lines handed to the parser are put together from
Pieces == {MarkDeleted, MarkNone, MarkArrow, <<" ">>, <<"a">>, <<"-">>}

RECURSIVE PieceLines(_)
PieceLines(n) ==
    IF n = 0 THEN {<<>>}
    ELSE LET shorter == PieceLines(n - 1)
         IN  shorter \cup {l \o p : l \in shorter, p \in Pieces}

ParserLines == PieceLines(MaxPieces) \cup {ExampleLine}

-----------------------------------------------------------------------------
(* Results, log entries, command lists *)

Ok == [ok |-> TRUE, err |-> ""]
Err(msg) == [ok |-> FALSE, err |-> msg]
Pending == [ok |-> FALSE, err |-> "pending"]

\* one thing the invocation did.  kind: "current_branch" and "branches" (the
\* two reads), "git" (an external command, with its arguments and outcome),
\* "stdout" (println!), "warn", "fail" and "prefix" (the three eprintln!).
\* line: the output line the loop of prune was handling, 0 outside it.
Ev(kind, line, args, ok) == [kind |-> kind, line |-> line, args |-> args, ok |-> ok]

Step(desc, args) == [desc |-> desc, args |-> args]

CommitMessage == "lk save [now] | message"

SaveCommands_commit_first(all) ==
    << Step("commit", <<"commit", "--message", CommitMessage>>),
       Step("add files", <<"add", IF all THEN "--all" ELSE "--update">>),
       Step("push", <<"push">>) >>

SaveCommands(all) ==
    << Step("add files", <<"add", IF all THEN "--all" ELSE "--update">>),
       Step("commit", <<"commit", "--message", CommitMessage>>),
       Step("push", <<"push">>) >>

NewCommands(name) ==
    << Step("create new branch", <<"switch", "--create", name>>),
       Step("push to origin", <<"push", "--set-upstream", Origin, name>>) >>

\* new_branch: the parts joined with dashes, behind the prefix of the
\* environment variable when it is set
NewName(parts, prefix) ==
    LET joined == JoinWith(parts, <<"-">>)
    IN  IF prefix.some THEN prefix.val \o joined ELSE joined

IsDetached_case_sensitive(name) == name = HEAD

IsDetached(name) == to_ascii_lowercase(name) = LowerHead

PushArgs(force, name) ==
    <<"push", "--set-upstream">>
        \o (IF force THEN <<"--force-with-lease">> ELSE <<>>)
        \o <<Origin, name>>

PruneArgs(sub) == <<sub, "--prune">>

DeleteArgs_soft(name) == <<"branch", "-d", name>>

DeleteArgs(name) == <<"branch", "-D", name>>

\* deletes whatever the local branch set holds, the checked-out branch too
PruneDecision_no_head_check(parsed, cur, brs) ==
    IF ~parsed.some THEN "none"
    ELSE IF parsed.val \in brs THEN "delete"
    ELSE "none"

\* deletes without looking the name up in the local branch set
PruneDecision_no_lookup(parsed, cur, brs) ==
    IF ~parsed.some THEN "none"
    ELSE IF parsed.val = cur THEN "warn"
    ELSE "delete"

\* prune: what the loop body does with the parser's answer for a line
PruneDecision(parsed, cur, brs) ==
    IF ~parsed.some THEN "none"
    ELSE IF parsed.val = cur THEN "warn"
    ELSE IF parsed.val \in brs THEN "delete"
    ELSE "none"

\* a failed deletion ends the loop, as `?` would
OnDeleteResult_propagate(ok) == IF ok THEN "continue" ELSE "abort"

\* prune: the Err of a deletion is printed, never returned
OnDeleteResult(ok) == "continue"

\* the line is echoed after it was handled
LineEvents_echo_last(i, line, dec, name, ok) ==
    ( CASE dec = "warn" -> <<Ev("warn", i, <<name>>, TRUE)>>
        [] dec = "delete" ->
             <<Ev("git", i, DeleteArgs(name), ok)>>
                 \o (IF ok THEN <<>> ELSE <<Ev("fail", i, <<name>>, TRUE)>>)
        [] OTHER -> <<>> )
    \o <<Ev("stdout", i, <<line>>, TRUE)>>

\* prune: what the loop body does for line i, in the order it does it
LineEvents(i, line, dec, name, ok) ==
    <<Ev("stdout", i, <<line>>, TRUE)>>
    \o ( CASE dec = "warn" -> <<Ev("warn", i, <<name>>, TRUE)>>
           [] dec = "delete" ->
                <<Ev("git", i, DeleteArgs(name), ok)>>
                    \o (IF ok THEN <<>> ELSE <<Ev("fail", i, <<name>>, TRUE)>>)
           [] OTHER -> <<>> )

\* the error of a failed read or command is returned at once
Propagate_ignore(ok, next) == next

\* the `?` operator: on Err the function returns, on Ok it goes on
Propagate(ok, next) == IF ok THEN next ELSE "done"

-----------------------------------------------------------------------------
(* git, the external collaborator *)

IsDelete(args) == args[1] = "branch"
IsCreate(args) == args[1] = "switch"

\* whether the repository lets the command succeed (it may fail regardless)
CanSucceed(args) ==
    IF IsDelete(args) THEN args[3] \in repo_branches /\ args[3] # repo_current
    ELSE IF IsCreate(args) THEN args[3] \notin repo_branches
    ELSE TRUE

BranchesAfter(args, ok) ==
    IF ok /\ IsDelete(args) THEN repo_branches \ {args[3]}
    ELSE IF ok /\ IsCreate(args) THEN repo_branches \cup {args[3]}
    ELSE repo_branches

CurrentAfter(args, ok) ==
    IF ok /\ IsCreate(args) THEN args[3] ELSE repo_current

\* what a fetch/pull --prune may print
NoiseLine == <<"u", "p", " ", "t", "o", " ", "d", "a", "t", "e">>
FetchLines ==
    {PrunedLine(BrA), PrunedLine(BrUpperA), PrunedLine(LowerHead), NoiseLine}

RECURSIVE SeqsUpTo(_, _)
SeqsUpTo(S, n) ==
    IF n = 0 THEN {<<>>}
    ELSE LET shorter == SeqsUpTo(S, n - 1)
         IN  shorter \cup {Append(q, x) : q \in shorter, x \in S}

-----------------------------------------------------------------------------
(* Command lines *)

NameWords == {<<"a">>, <<"x">>}
Prefixes == {None, Some(<<"p", "/">>)}

Cli(sub, name, prefix, force, all) ==
    [sub |-> sub, name |-> name, prefix |-> prefix, force |-> force, all |-> all]

Invocations ==
    {Cli("new", n, p, FALSE, FALSE) : n \in SeqsUpTo(NameWords, MaxNameParts), p \in Prefixes}
    \cup {Cli("push", <<>>, None, f, FALSE) : f \in BOOLEAN}
    \cup {Cli(sub, <<>>, None, FALSE, FALSE) : sub \in {"pull", "fetch"}}
    \cup {Cli("save", <<>>, None, FALSE, a) : a \in BOOLEAN}

NoCli == Cli("none", <<>>, None, FALSE, FALSE)

Entry(sub) ==
    CASE sub = "new" -> "new_branch"
      [] sub = "push" -> "push_branch"
      [] sub = "save" -> "save"
      [] OTHER -> "prune"

\* the fetch/pull of a run of prune returned its lines
Fetched(l) ==
    \E k \in DOMAIN l :
        /\ l[k].kind = "git" /\ l[k].line = 0 /\ l[k].ok
        /\ Len(l[k].args) = 2 /\ l[k].args[2] = "--prune"

NoPrev == [fetched |-> FALSE, lines |-> <<>>, current_branch |-> <<>>,
           log |-> <<>>, result |-> Pending]

-----------------------------------------------------------------------------
(* The state after construction *)

Init ==
    /\ repo_current \in Names \cup {HEAD}
    /\ repo_branches \in SUBSET Names
    /\ repo_current # HEAD => repo_current \in repo_branches
    /\ run = 0
    /\ cmd = NoCli
    /\ pc = "idle"
    /\ current_branch = <<>>
    /\ branches = {}
    /\ lines = <<>>
    /\ idx = 0
    /\ queue = <<>>
    /\ log = <<>>
    /\ result = Pending
    /\ prev = NoPrev
    /\ pline = <<>>
    /\ presult = None

Return(r) ==
    /\ result' = r
    /\ pc' = "done"

-----------------------------------------------------------------------------
(* main *)

\* the tool is started: Cli::parse() and the match on the subcommand
main ==
    /\ pc = "idle"
    /\ \E c \in Invocations :
         /\ cmd' = c
         /\ pc' = Entry(c.sub)
    /\ run' = run + 1
    /\ UNCHANGED <<repo, locals, log, result, prev, parser>>

\* the same command line is run again, a fresh process on the repository
\* the earlier run left
Rerun ==
    /\ pc = "done"
    /\ run < MaxRuns
    /\ prev' = [fetched |-> Fetched(log),
                lines |-> lines, current_branch |-> current_branch,
                log |-> log, result |-> result]
    /\ run' = run + 1
    /\ pc' = Entry(cmd.sub)
    /\ current_branch' = <<>>
    /\ branches' = {}
    /\ lines' = <<>>
    /\ idx' = 0
    /\ queue' = <<>>
    /\ log' = <<>>
    /\ result' = Pending
    /\ UNCHANGED <<repo, cmd, parser>>

-----------------------------------------------------------------------------
(* new, save and git_commands_status *)

new_branch ==
    /\ pc = "new_branch"
    /\ IF Len(cmd.name) = 0
       THEN /\ Return(Err("name cannot be empty."))
            /\ UNCHANGED <<queue, log>>
       ELSE /\ queue' = NewCommands(NewName(cmd.name, cmd.prefix))
            /\ log' = IF cmd.prefix.some
                      THEN Append(log, Ev("prefix", 0, <<cmd.prefix.val>>, TRUE))
                      ELSE log
            /\ pc' = "git_commands_status"
            /\ UNCHANGED result
    /\ UNCHANGED <<repo, run, cmd, current_branch, branches, lines, idx, prev, parser>>

save ==
    /\ pc = "save"
    /\ \E now_ok \in BOOLEAN :
         IF ~now_ok
         THEN /\ Return(Err("could not get current time"))
              /\ UNCHANGED queue
         ELSE /\ queue' = SaveCommands(cmd.all)
              /\ pc' = "git_commands_status"
              /\ UNCHANGED result
    /\ UNCHANGED <<repo, run, cmd, current_branch, branches, lines, idx, log, prev, parser>>

\* one turn of the loop of git_commands_status: the next command is run; its
\* failure is returned at once, the success of the last one returns Ok
git_commands_status ==
    /\ pc = "git_commands_status"
    /\ queue # <<>>
    /\ LET step == Head(queue)
       IN  \E ok \in BOOLEAN :
             /\ ok => CanSucceed(step.args)
             /\ log' = Append(log, Ev("git", 0, step.args, ok))
             /\ repo_branches' = BranchesAfter(step.args, ok)
             /\ repo_current' = CurrentAfter(step.args, ok)
             /\ queue' = Tail(queue)
             /\ IF ~ok THEN Return(Err(step.desc))
                ELSE IF Tail(queue) = <<>> THEN Return(Ok)
                ELSE UNCHANGED <<pc, result>>
    /\ UNCHANGED <<run, cmd, current_branch, branches, lines, idx, prev, parser>>

-----------------------------------------------------------------------------
(* push *)

push_branch ==
    /\ pc = "push_branch"
    /\ \E ok \in BOOLEAN :
         /\ log' = Append(log, Ev("current_branch", 0, <<>>, ok))
         /\ current_branch' = IF ok THEN repo_current ELSE current_branch
         /\ pc' = Propagate(ok, "push_branch_push")
         /\ result' = IF pc' = "done" THEN Err("current branch") ELSE result
    /\ UNCHANGED <<repo, run, cmd, branches, lines, idx, queue, prev, parser>>

push_branch_push ==
    /\ pc = "push_branch_push"
    /\ IF IsDetached(current_branch)
       THEN /\ Return(Err("HEAD is currently detached, no branch to push!"))
            /\ UNCHANGED log
       ELSE \E ok \in BOOLEAN :
              /\ log' = Append(log, Ev("git", 0, PushArgs(cmd.force, current_branch), ok))
              /\ Return(IF ok THEN Ok ELSE Err("push"))
    /\ UNCHANGED <<repo, run, cmd, locals, prev, parser>>

-----------------------------------------------------------------------------
(* pull and fetch: prune *)

prune_current_branch ==
    /\ pc = "prune"
    /\ \E ok \in BOOLEAN :
         /\ log' = Append(log, Ev("current_branch", 0, <<>>, ok))
         /\ current_branch' = IF ok THEN repo_current ELSE current_branch
         /\ pc' = Propagate(ok, "prune_branches")
         /\ result' = IF pc' = "done" THEN Err("current branch") ELSE result
    /\ UNCHANGED <<repo, run, cmd, branches, lines, idx, queue, prev, parser>>

prune_branches ==
    /\ pc = "prune_branches"
    /\ \E ok \in BOOLEAN :
         /\ log' = Append(log, Ev("branches", 0, <<>>, ok))
         /\ branches' = IF ok THEN repo_branches ELSE branches
         /\ pc' = Propagate(ok, "prune_fetch")
         /\ result' = IF pc' = "done" THEN Err("branches") ELSE result
    /\ UNCHANGED <<repo, run, cmd, current_branch, lines, idx, queue, prev, parser>>

\* git_command_lines("pull with pruning", [cmd, "--prune"])?: a later run is
\* fed the lines the run before it was fed
prune_fetch ==
    /\ pc = "prune_fetch"
    /\ \E ok \in BOOLEAN :
         /\ log' = Append(log, Ev("git", 0, PruneArgs(cmd.sub), ok))
         /\ \E out \in (IF ~ok THEN {<<>>}
                        ELSE IF prev.fetched THEN {prev.lines}
                        ELSE SeqsUpTo(FetchLines, MaxLines)) :
              lines' = out
         /\ pc' = Propagate(ok, "prune_loop")
         /\ result' = IF pc' = "done" THEN Err("pull with pruning") ELSE result
    /\ UNCHANGED <<repo, run, cmd, current_branch, branches, idx, queue, prev, parser>>

\* one turn of the for loop: println!, is_pruned_branch, and the deletion or
\* the warning
prune_line ==
    /\ pc = "prune_loop"
    /\ idx < Len(lines)
    /\ LET i == idx + 1
           line == lines[i]
           parsed == is_pruned_branch(line)
           dec == PruneDecision(parsed, current_branch, branches)
       IN  IF dec = "delete"
           THEN \E ok \in BOOLEAN :
                  /\ ok => CanSucceed(DeleteArgs(parsed.val))
                  /\ log' = log \o LineEvents(i, line, dec, parsed.val, ok)
                  /\ repo_branches' = BranchesAfter(DeleteArgs(parsed.val), ok)
                  /\ IF OnDeleteResult(ok) = "continue"
                     THEN UNCHANGED <<pc, result>>
                     ELSE Return(Err("delete branch"))
           ELSE /\ log' = log \o LineEvents(i, line, dec, parsed.val, TRUE)
                /\ UNCHANGED <<repo_branches, pc, result>>
    /\ idx' = idx + 1
    /\ UNCHANGED <<repo_current, run, cmd, current_branch, branches, lines, queue, prev, parser>>

\* the loop is over: Ok(())
prune_return ==
    /\ pc = "prune_loop"
    /\ idx = Len(lines)
    /\ Return(Ok)
    /\ UNCHANGED <<repo, run, cmd, locals, log, prev, parser>>

Next ==
    \/ main
    \/ Rerun
    \/ new_branch
    \/ save
    \/ git_commands_status
    \/ push_branch
    \/ push_branch_push
    \/ prune_current_branch
    \/ prune_branches
    \/ prune_fetch
    \/ prune_line
    \/ prune_return

Spec == Init /\ [][Next]_vars

-----------------------------------------------------------------------------
(* The parser on its own: a line is drawn, is_pruned_branch is applied *)

ParserInit ==
    /\ repo_current = HEAD
    /\ repo_branches = {}
    /\ run = 0
    /\ cmd = NoCli
    /\ pc = "parse"
    /\ current_branch = <<>>
    /\ branches = {}
    /\ lines = <<>>
    /\ idx = 0
    /\ queue = <<>>
    /\ log = <<>>
    /\ result = Pending
    /\ prev = NoPrev
    /\ pline \in ParserLines
    /\ presult = None

ParseLine ==
    /\ pc = "parse"
    /\ presult' = is_pruned_branch(pline)
    /\ pc' = "parsed"
    /\ UNCHANGED <<repo, run, cmd, locals, log, result, prev, pline>>

ParserNext == ParseLine

ParserSpec == ParserInit /\ [][ParserNext]_vars

-----------------------------------------------------------------------------
(* Properties of prune *)

IsPrune == cmd.sub \in {"pull", "fetch"}

\* the positions of the log where the loop, handling line i, did `kind`
At(kind, i) == {k \in DOMAIN log : log[k].kind = kind /\ log[k].line = i}

\* the positions of the log that belong to line i
OfLine(i) == {k \in DOMAIN log : log[k].line = i}

\* the positions of the log where a deletion of `name` was invoked
DeletionsOf(l, name) ==
    {k \in DOMAIN l : l[k].kind = "git" /\ l[k].args[1] = "branch" /\ l[k].args[3] = name}

Deletions(l) == {k \in DOMAIN l : l[k].kind = "git" /\ l[k].args[1] = "branch"}

\* what the parser yields for each line a fetch/pull may print
Yield == [l \in FetchLines |-> is_pruned_branch(l)]

Parsed(i) == Yield[lines[i]]

\* C1: prune never invokes `branch -D` on the Current Branch snapshot; every
\* handled line that names the Current Branch gets one warning and no command
C1_CurrentBranchNeverDeleted ==
    IsPrune =>
        /\ DeletionsOf(log, current_branch) = {}
        /\ \A i \in 1..idx :
             Parsed(i) = Some(current_branch) =>
                 /\ Cardinality(At("warn", i)) = 1
                 /\ At("git", i) = {}

\* a line naming the checked-out branch, which is in the Local Branch Set,
\* was handled
C1_Witness ==
    /\ IsPrune
    /\ idx >= 1
    /\ Parsed(1) = Some(current_branch)
    /\ current_branch \in branches
    /\ At("warn", 1) # {}

\* C2: a handled line whose name is in the Local Branch Set and differs
\* (case-sensitively) from the Current Branch gets exactly one command,
\* `branch -D <name>` with the parsed name, and no warning
C2_DeletesExactName ==
    IsPrune =>
        \A i \in 1..idx :
            ( /\ Parsed(i).some
              /\ Parsed(i).val \in branches
              /\ Parsed(i).val # current_branch ) =>
                /\ Cardinality(At("git", i)) = 1
                /\ \A k \in At("git", i) :
                     log[k].args = <<"branch", "-D", Parsed(i).val>>
                /\ At("warn", i) = {}

\* branch A was deleted while a, which differs from it only in case, is
\* checked out
C2_Witness ==
    /\ IsPrune
    /\ idx >= 1
    /\ current_branch = BrA
    /\ Parsed(1) = Some(BrUpperA)
    /\ BrUpperA \in branches
    /\ \E k \in At("git", 1) : log[k].ok

\* C3: a handled line that yields no name, or a name that is neither in the
\* Local Branch Set nor the Current Branch, is echoed and nothing else
C3_UnknownNameNoAction ==
    IsPrune =>
        \A i \in 1..idx :
            ( \/ ~Parsed(i).some
              \/ (Parsed(i).val \notin branches /\ Parsed(i).val # current_branch) ) =>
                /\ Cardinality(OfLine(i)) = 1
                /\ \A k \in OfLine(i) : log[k].kind = "stdout"

\* a line naming a branch the repository does not hold and a line that is no
\* pruning notice were both handled
C3_Witness ==
    /\ IsPrune
    /\ idx = 2
    /\ Parsed(1).some
    /\ Parsed(1).val \notin branches
    /\ Parsed(1).val # current_branch
    /\ ~Parsed(2).some

\* C4: a failed deletion is reported on the error stream and nothing more:
\* once the fetch/pull has returned its lines, prune returns Ok having echoed
\* every line and attempted the deletion of every deletable one
C4_FailedDeletionDoesNotAbort ==
    IsPrune =>
        /\ \A k \in Deletions(log) :
             ~log[k].ok =>
                 /\ k + 1 <= Len(log)
                 /\ log[k + 1] = Ev("fail", log[k].line, <<log[k].args[3]>>, TRUE)
        /\ (pc = "done" /\ Fetched(log)) =>
             /\ result = Ok
             /\ idx = Len(lines)
             /\ \A i \in 1..Len(lines) :
                  /\ Cardinality(At("stdout", i)) = 1
                  /\ ( /\ Parsed(i).some
                       /\ Parsed(i).val \in branches
                       /\ Parsed(i).val # current_branch ) => At("git", i) # {}

\* the deletion for line 1 failed and the one for line 2 was still made
C4_Witness ==
    /\ IsPrune
    /\ pc = "done"
    /\ result = Ok
    /\ Len(lines) = 2
    /\ \E k \in At("git", 1) : ~log[k].ok
    /\ \E k \in At("git", 2) : log[k].ok

SetMin(S) == CHOOSE x \in S : \A y \in S : x <= y

\* C5: lines are handled in order: the log never goes back to an earlier
\* line, each handled line is echoed once and its echo is the first thing done
\* for it, and a deletable name on k lines is the object of k deletions
C5_InOrderNoDeduplication ==
    IsPrune =>
        /\ \A j, k \in DOMAIN log : j < k => log[j].line <= log[k].line
        /\ \A k \in DOMAIN log : log[k].line <= idx
        /\ \A i \in 1..idx :
             /\ Cardinality(At("stdout", i)) = 1
             /\ log[SetMin(OfLine(i))] = Ev("stdout", i, <<lines[i]>>, TRUE)
        /\ \A n \in branches :
             n # current_branch =>
                 Cardinality(DeletionsOf(log, n))
                     = Cardinality({i \in 1..idx : Parsed(i) = Some(n)})

\* the same deletable name came on two lines and was the object of two
\* deletions
C5_Witness ==
    /\ IsPrune
    /\ idx = 2
    /\ lines[1] = lines[2]
    /\ Parsed(1).some
    /\ Cardinality(DeletionsOf(log, Parsed(1).val)) = 2

\* this run of prune and the one before it were fed the same lines and read
\* the same Current Branch
SameFeed ==
    /\ IsPrune
    /\ run >= 2
    /\ prev.fetched
    /\ Fetched(log)
    /\ lines = prev.lines
    /\ current_branch = prev.current_branch

\* C6, as claimed: the second run on the same lines invokes no deletion
C6_SecondRunDeletesNothing ==
    SameFeed => Deletions(log) = {}

\* C6, amended: the second run on the same lines invokes a deletion only of
\* a branch every deletion of which failed in the first run; no branch the
\* first run deleted is the object of a second deletion
C6_SecondRunRetriesOnlyFailures ==
    SameFeed =>
        \A k \in Deletions(log) :
            /\ DeletionsOf(prev.log, log[k].args[3]) # {}
            /\ \A j \in DeletionsOf(prev.log, log[k].args[3]) : ~prev.log[j].ok

\* the first run deleted one branch and failed to delete another; the second
\* run, over, left the first alone and tried the other again
C6_Witness ==
    /\ SameFeed
    /\ pc = "done"
    /\ Deletions(log) # {}
    /\ \E j \in Deletions(prev.log) :
         /\ prev.log[j].ok
         /\ DeletionsOf(log, prev.log[j].args[3]) = {}

-----------------------------------------------------------------------------
(* Properties of new, save and push *)

GitEvents == SelectSeq(log, LAMBDA e : e.kind = "git")

\* the description git_commands_status reports a failed command under
DescOf(args) ==
    CASE args[1] = "switch" -> "create new branch"
      [] args[1] = "add" -> "add files"
      [] args[1] = "commit" -> "commit"
      [] args = <<"push">> -> "push"
      [] OTHER -> "push to origin"

\* C7: new runs `switch --create <name>` and then `push --set-upstream origin
\* <name>`, save runs add, commit and push, each command only after the one
\* before it succeeded; a failed command is the last one run and its error is
\* what the subcommand returns
C7_StopsAtFirstFailure ==
    cmd.sub \in {"new", "save"} =>
        LET g == GitEvents
            n == Len(g)
        IN  /\ \A k \in 1..(n - 1) : g[k].ok
            /\ cmd.sub = "new" =>
                 /\ n <= 2
                 /\ n >= 1 => (g[1].args[1] = "switch" /\ g[1].args[2] = "--create")
                 /\ n >= 2 => g[2].args = <<"push", "--set-upstream", "origin", g[1].args[3]>>
            /\ cmd.sub = "save" =>
                 /\ n <= 3
                 /\ n >= 1 => g[1].args[1] = "add"
                 /\ n >= 2 => g[2].args[1] = "commit"
                 /\ n >= 3 => g[3].args = <<"push">>
            /\ (n >= 1 /\ ~g[n].ok) => (pc = "done" /\ result = Err(DescOf(g[n].args)))
            /\ (pc = "done" /\ result.ok) =>
                 (n = (IF cmd.sub = "new" THEN 2 ELSE 3) /\ g[n].ok)

\* save: add succeeded, commit failed, push was never run
C7_Witness ==
    /\ cmd.sub = "save"
    /\ pc = "done"
    /\ Len(GitEvents) = 2
    /\ GitEvents[1].ok
    /\ GitEvents[2].args[1] = "commit"
    /\ ~GitEvents[2].ok
    /\ result = Err("commit")

\* C8: push, once it has read the current branch: when the name is HEAD in
\* any letter case it returns an error having run no command; otherwise it
\* runs exactly one command, push --set-upstream [--force-with-lease] origin
\* <current branch>, with --force-with-lease exactly when --force was given
C8_PushDetachedHead ==
    (cmd.sub = "push" /\ pc = "done" /\ log[1].ok) =>
        IF to_ascii_lowercase(current_branch) = LowerHead
        THEN /\ ~result.ok
             /\ GitEvents = <<>>
        ELSE /\ Len(GitEvents) = 1
             /\ GitEvents[1].args =
                    IF cmd.force
                    THEN <<"push", "--set-upstream", "--force-with-lease", "origin", current_branch>>
                    ELSE <<"push", "--set-upstream", "origin", current_branch>>
             /\ result.ok <=> GitEvents[1].ok

\* push --force on a checked-out branch named head: refused, nothing run
C8_Witness ==
    /\ cmd.sub = "push"
    /\ cmd.force
    /\ pc = "done"
    /\ log[1].ok
    /\ current_branch = LowerHead
    /\ result = Err("HEAD is currently detached, no branch to push!")
    /\ GitEvents = <<>>

-----------------------------------------------------------------------------
(* Properties of the reads of prune *)

\* C10: prune reads the current branch, then the branch list, then runs the
\* fetch/pull, each once and each only after the one before it succeeded; a
\* failure of any of the three is returned with nothing echoed and nothing
\* deleted; a fetch/pull that prints no line makes prune return Ok having done
\* nothing else
C10_ReadsOnceBeforeFetch ==
    IsPrune =>
        LET n == Len(log)
        IN  /\ n >= 1 => log[1].kind = "current_branch"
            /\ n >= 2 => (log[1].ok /\ log[2].kind = "branches")
            /\ n >= 3 => (log[2].ok /\ log[3] = Ev("git", 0, <<cmd.sub, "--prune">>, log[3].ok))
            /\ n >= 4 => log[3].ok
            /\ \A k \in 4..n : log[k].line > 0
            /\ \A k \in 1..n :
                 (k <= 3 /\ ~log[k].ok) => (n = k /\ pc = "done" /\ ~result.ok)
            /\ (pc = "done" /\ Fetched(log) /\ lines = <<>>) => (result = Ok /\ n = 3)

\* both reads succeeded and the fetch/pull failed
C10_Witness ==
    /\ IsPrune
    /\ pc = "done"
    /\ Len(log) = 3
    /\ log[1].ok
    /\ log[2].ok
    /\ ~log[3].ok
    /\ result = Err("pull with pruning")

-----------------------------------------------------------------------------
(* Properties of the parser *)

Occurrences(s, m) == {i \in 1..Len(s) : OccursAt(s, m, i)}

SetMax(S) == CHOOSE x \in S : \A y \in S : x >= y

\* C9: is_pruned_branch yields a name exactly when the trimmed line holds
\* `- [deleted]`, then `(none)`, then `->`, and the trimmed text after the
\* last `->` is not empty; the name is that text
C9_ParserYieldsTrailingName ==
    pc = "parsed" =>
        LET t == Trim(pline)
            ds == Occurrences(t, MarkDeleted)
            ns == Occurrences(t, MarkNone)
            as == Occurrences(t, MarkArrow)
            inOrder == \E i \in ds, j \in ns, k \in as : i < j /\ j < k
            rest == IF as = {} THEN <<>>
                    ELSE Trim(SubSeq(t, SetMax(as) + 2, Len(t)))
        IN  IF inOrder /\ rest # <<>>
            THEN presult = Some(rest)
            ELSE presult = None

\* the example line of the format was parsed to feature/foo
C9_Witness ==
    /\ pc = "parsed"
    /\ pline = ExampleLine
    /\ presult = Some(FeatureFoo)

====
